---------------------------- MODULE Spec2Model ----------------------------
(***************************************************************************)
(* Model of transformer_nuggets/quant/qlora.py: the NF4 double-quantization *)
(* codec (QLoRAWeight, QLoRAWeightDebug, get_block_absmax).                 *)
(*                                                                         *)
(* Numbers.  A floating point number is a pair <<m, e>> standing for        *)
(* m * 2^e.  A bfloat16 value is kept normalised to an 8 bit significand    *)
(* (128 <= |m| <= 255), a float32 value to a 24 bit significand; zero is    *)
(* <<0, 0>> (the sign of zero is not kept: -0.0 == 0.0 in every comparison  *)
(* the code makes).  NaN and the infinities are the pairs NaN, PosInf and   *)
(* NegInf.  Every arithmetic operation is the exact operation followed by   *)
(* round-to-nearest-even at the precision of the result dtype, as torch     *)
(* computes it; the exponent is unbounded, which agrees with bfloat16 and   *)
(* float32 as long as exponents stay within -126..127 (they do here).       *)
(***************************************************************************)
EXTENDS Integers, Sequences, FiniteSets

(***************************************************************************)
(* Floating point arithmetic                                               *)
(***************************************************************************)
BF16 == 8      \* significand bits of torch.bfloat16
F32 == 24      \* significand bits of torch.float32

Zero == <<0, 0>>
NaN == <<0, 1>>
PosInf == <<1, 0>>
NegInf == <<-1, 0>>

IsNaN(a) == a = NaN
IsInf(a) == a = PosInf \/ a = NegInf
IsFinite(a) == ~IsNaN(a) /\ ~IsInf(a)

IAbs(n) == IF n < 0 THEN -n ELSE n
Sgn(n) == IF n < 0 THEN -1 ELSE IF n > 0 THEN 1 ELSE 0

\* Sign of a float (NaN has none: 0).
FSign(a) == IF IsNaN(a) THEN 0 ELSE Sgn(a[1])
FNeg(a) == IF IsNaN(a) THEN NaN ELSE IF a = Zero THEN Zero ELSE <<-a[1], a[2]>>
FAbs(a) == IF IsNaN(a) THEN NaN ELSE IF a = Zero THEN Zero ELSE <<IAbs(a[1]), a[2]>>

\* Number of bits of n > 0.
RECURSIVE BitLen(_)
BitLen(n) == IF n <= 0 THEN 0 ELSE 1 + BitLen(n \div 2)

\* The exact value M * 2^E rounded to nearest, ties to even, at p significand
\* bits, normalised.
RECURSIVE Normalize(_, _, _)
Normalize(M, E, p) ==
    IF M = 0 THEN Zero
    ELSE IF IAbs(M) < 2^(p - 1) THEN Normalize(2 * M, E - 1, p)
    ELSE IF IAbs(M) < 2^p THEN <<M, E>>
    ELSE LET k == BitLen(IAbs(M)) - p
             q == IAbs(M) \div 2^k
             r == IAbs(M) % 2^k
             half == 2^(k - 1)
             up == r > half \/ (r = half /\ q % 2 = 1)
             q2 == IF up THEN q + 1 ELSE q
         IN IF q2 = 2^p THEN <<Sgn(M) * 2^(p - 1), E + k + 1>>
            ELSE <<Sgn(M) * q2, E + k>>

\* Long division: the significand bits of P / Q (1 <= P / Q < 2) one at a
\* time; M holds the bits so far, r the remainder.  <<M, r>> after n more bits.
RECURSIVE LongDiv(_, _, _, _)
LongDiv(M, r, Q, n) ==
    IF n = 0 THEN <<M, r>>
    ELSE IF 2 * r >= Q THEN LongDiv(2 * M + 1, 2 * r - Q, Q, n - 1)
         ELSE LongDiv(2 * M, 2 * r, Q, n - 1)

\* The exact value (P / Q) * 2^E, P > 0 and Q > 0, rounded to nearest, ties to
\* even, at p significand bits.
RECURSIVE RatioPos(_, _, _, _)
RatioPos(P, Q, E, p) ==
    IF P < Q THEN RatioPos(2 * P, Q, E - 1, p)
    ELSE IF P >= 2 * Q THEN RatioPos(P, 2 * Q, E + 1, p)
    ELSE LET d == LongDiv(1, P - Q, Q, p - 1)
             up == 2 * d[2] > Q \/ (2 * d[2] = Q /\ d[1] % 2 = 1)
             m == IF up THEN d[1] + 1 ELSE d[1]
         IN IF m = 2^p THEN <<2^(p - 1), E + 1>> ELSE <<m, E - (p - 1)>>

\* The rational P / Q (Q > 0) times 2^E as a float of p significand bits.
FromRatio(P, Q, E, p) ==
    IF P = 0 THEN Zero
    ELSE LET a == RatioPos(IAbs(P), Q, E, p) IN <<Sgn(P) * a[1], a[2]>>

\* An integer as a float of p bits (exact for |n| < 2^p).
FromInt(n, p) == Normalize(n, 0, p)

\* A bfloat16 value at float32 precision (exact): type promotion.
Widen(a) == IF IsFinite(a) /\ a # Zero THEN <<a[1] * 2^(F32 - BF16), a[2] - (F32 - BF16)>> ELSE a

\* a < b for two non-NaN floats normalised to the same precision.
MagLess(a, b) ==
    \* |a| < |b|, both finite
    IF b = Zero THEN FALSE
    ELSE IF a = Zero THEN TRUE
    ELSE a[2] < b[2] \/ (a[2] = b[2] /\ IAbs(a[1]) < IAbs(b[1]))

FLess(a, b) ==
    IF IsNaN(a) \/ IsNaN(b) THEN FALSE
    ELSE IF a = b THEN FALSE
    ELSE IF a = NegInf \/ b = PosInf THEN TRUE
    ELSE IF a = PosInf \/ b = NegInf THEN FALSE
    ELSE IF FSign(a) # FSign(b) THEN FSign(a) < FSign(b)
    ELSE IF FSign(a) > 0 THEN MagLess(a, b)
    ELSE MagLess(b, a)

FLeq(a, b) == IF IsNaN(a) \/ IsNaN(b) THEN FALSE ELSE a = b \/ FLess(a, b)

\* |a| + |b| or |a| - |b| for |a| >= |b| > 0, exponents a[2] >= b[2]: the
\* smaller operand is shifted right under three extra bits (guard, round and
\* a sticky bit that keeps whatever was shifted out), which is enough for
\* round-to-nearest-even of a sum or a difference.
AlignedSmall(b, d) ==
    LET y == IAbs(b[1]) * 8
        sh == IF d > 30 THEN 0 ELSE y \div 2^d
        lost == IF d > 30 THEN TRUE ELSE y % 2^d # 0
    IN Sgn(b[1]) * (IF lost /\ sh % 2 = 0 THEN sh + 1 ELSE sh)

\* a + b rounded to p bits.
FAdd(a, b, p) ==
    IF IsNaN(a) \/ IsNaN(b) THEN NaN
    ELSE IF IsInf(a) THEN (IF IsInf(b) /\ a # b THEN NaN ELSE a)
    ELSE IF IsInf(b) THEN b
    ELSE IF a = Zero THEN b
    ELSE IF b = Zero THEN a
    ELSE IF a[2] >= b[2]
         THEN Normalize(a[1] * 8 + AlignedSmall(b, a[2] - b[2]), a[2] - 3, p)
         ELSE Normalize(b[1] * 8 + AlignedSmall(a, b[2] - a[2]), b[2] - 3, p)

FSub(a, b, p) == FAdd(a, FNeg(b), p)

FMul(a, b, p) ==
    IF IsNaN(a) \/ IsNaN(b) THEN NaN
    ELSE IF IsInf(a) \/ IsInf(b)
         THEN (IF a = Zero \/ b = Zero THEN NaN
               ELSE IF FSign(a) * FSign(b) > 0 THEN PosInf ELSE NegInf)
    ELSE IF a = Zero \/ b = Zero THEN Zero
    ELSE Normalize(a[1] * b[1], a[2] + b[2], p)

\* a / b rounded to p bits; x / 0 is an infinity and 0 / 0 is NaN (IEEE 754:
\* torch raises nothing).
FDiv(a, b, p) ==
    IF IsNaN(a) \/ IsNaN(b) THEN NaN
    ELSE IF IsInf(a) THEN (IF IsInf(b) THEN NaN
                           ELSE IF FSign(a) * (IF FSign(b) < 0 THEN -1 ELSE 1) > 0
                                THEN PosInf ELSE NegInf)
    ELSE IF IsInf(b) THEN Zero
    ELSE IF b = Zero THEN (IF a = Zero THEN NaN
                           ELSE IF FSign(a) > 0 THEN PosInf ELSE NegInf)
    ELSE IF a = Zero THEN Zero
    ELSE FromRatio(a[1] * Sgn(b[1]), IAbs(b[1]), a[2] - b[2], p)

\* torch.round of a finite float, as an integer: half to even.
FRound(a) ==
    IF a = Zero THEN 0
    ELSE IF a[2] >= 0 THEN a[1] * 2^(a[2])
    ELSE IF -a[2] > 30 THEN 0
    ELSE LET d == 2^(-a[2])
             q == IAbs(a[1]) \div d
             r == IAbs(a[1]) % d
             up == 2 * r > d \/ (2 * r = d /\ q % 2 = 1)
         IN Sgn(a[1]) * (IF up THEN q + 1 ELSE q)


\* A tensor given element by element, as a sequence.
Tensor(f) == f \o <<>>

\* The larger of two non-NaN floats of the same precision.
FMax(a, b) == IF FLess(a, b) THEN b ELSE a

(***************************************************************************)
(* The code table                                                          *)
(***************************************************************************)
\* The sixteen literals of the NF4 table, in units of 1/10000.
NF4Literals ==
    <<-10000, -6962, -5251, -3949, -2844, -1848, -911, 0,
      796, 1609, 2461, 3379, 4407, 5626, 7230, 10000>>

\* self.nf4: the literals as a torch.bfloat16 tensor.
nf4 == Tensor([i \in 1..16 |-> FromRatio(NF4Literals[i], 10000, 0, BF16)])

\* QLoRAWeightDebug.get_nf4() (cached, the default): the same literals as a
\* float32 tensor.
get_nf4 == Tensor([i \in 1..16 |-> FromRatio(NF4Literals[i], 10000, 0, F32)])

(***************************************************************************)
(* Element quantizers.  Indices are the code's (0..15); table[i + 1] is     *)
(* the code's table[i].                                                    *)
(***************************************************************************)
\* Variant of ArgMinFrom that keeps the last index of the least distance
\* (ties go to the larger index).
RECURSIVE ArgMinLastFrom(_, _, _)
ArgMinLastFrom(diff, best, i) ==
    IF i > 15 THEN best
    ELSE IF IsNaN(diff[best + 1]) THEN best
    ELSE IF IsNaN(diff[i + 1]) \/ FLeq(diff[i + 1], diff[best + 1])
         THEN ArgMinLastFrom(diff, i, i + 1)
         ELSE ArgMinLastFrom(diff, best, i + 1)

\* The first index in best..15 whose distance is the least one; an index whose
\* distance is NaN wins at once (torch.min returns the first NaN).
RECURSIVE ArgMinFrom(_, _, _)
ArgMinFrom(diff, best, i) ==
    IF i > 15 THEN best
    ELSE IF IsNaN(diff[best + 1]) THEN best
    ELSE IF IsNaN(diff[i + 1]) \/ FLess(diff[i + 1], diff[best + 1])
         THEN ArgMinFrom(diff, i, i + 1)
         ELSE ArgMinFrom(diff, best, i + 1)

\* QLoRAWeight.quantize_tensor_nearest for one element: (value - nf4).abs()
\* in bfloat16, then the index of the minimum.
quantize_tensor_nearest(value, table) ==
    LET diff == Tensor([i \in 1..16 |-> FAbs(FSub(value, table[i], BF16))])
    IN ArgMinFrom(diff, 0, 1)

\* QLoRAWeight.quantize_tensor for one element: 16 - (value <= nf4).sum().
quantize_tensor(value, table) ==
    16 - Cardinality({i \in 1..16 : FLeq(value, table[i])})

\* QLoRAWeightDebug.quantize: the loop returns at the first i with
\* value <= nkf[i]; value (bfloat16) is promoted to float32 for the comparison.
RECURSIVE DebugQuantizeFrom(_, _, _)
DebugQuantizeFrom(value, nkf, i) ==
    IF i > 15 THEN 15
    ELSE IF FLeq(Widen(value), nkf[i + 1]) THEN i
    ELSE DebugQuantizeFrom(value, nkf, i + 1)

quantize(value, nkf) == DebugQuantizeFrom(value, nkf, 0)

\* QLoRAWeightDebug.quantize_nearest: the loop keeps the first index of the
\* least abs(nkf[i] - value), computed in float32.
RECURSIVE DebugNearestFrom(_, _, _, _, _)
DebugNearestFrom(value, nkf, closest_index, closest_diff, i) ==
    IF i > 15 THEN closest_index
    ELSE LET diff == FAbs(FSub(nkf[i + 1], Widen(value), F32))
         IN IF FLess(diff, closest_diff)
            THEN DebugNearestFrom(value, nkf, i, diff, i + 1)
            ELSE DebugNearestFrom(value, nkf, closest_index, closest_diff, i + 1)

quantize_nearest(value, nkf) ==
    DebugNearestFrom(value, nkf, 0, FAbs(FSub(nkf[1], Widen(value), F32)), 1)

\* QLoRAWeight.dequantize: nf4[value].
dequantize(value, table) == table[value + 1]

\* Bitwise operators on naturals, as Python's on int64 and uint8 tensors.
RECURSIVE BitOr(_, _)
BitOr(a, b) ==
    IF a = 0 THEN b ELSE IF b = 0 THEN a
    ELSE (IF a % 2 = 1 \/ b % 2 = 1 THEN 1 ELSE 0) + 2 * BitOr(a \div 2, b \div 2)

RECURSIVE BitAnd(_, _)
BitAnd(a, b) ==
    IF a = 0 \/ b = 0 THEN 0
    ELSE (IF a % 2 = 1 /\ b % 2 = 1 THEN 1 ELSE 0) + 2 * BitAnd(a \div 2, b \div 2)

ShiftLeft(a, n) == a * 2^n
ShiftRight(a, n) == a \div 2^n

\* Variant of Combine with the nibbles in the other order.
CombineLowFirst(element_1, element_2) == BitOr(ShiftLeft(element_2, 4), element_1) % 256

\* quantized_blocks[::2] << 4 | quantized_blocks[1::2], then .to(torch.uint8)
Combine(element_1, element_2) == BitOr(ShiftLeft(element_1, 4), element_2) % 256

(***************************************************************************)
(* Tensors are sequences of floats in flat (row-major) order.  A call that  *)
(* raises returns [err |-> its message, val |-> <<>>].                      *)
(***************************************************************************)
Ok(v) == [err |-> "", val |-> v]
Raise(msg) == [err |-> msg, val |-> <<>>]

RECURSIVE MaxAbsFrom(_, _, _, _)
MaxAbsFrom(t, i, last, acc) ==
    IF i > last THEN acc ELSE MaxAbsFrom(t, i + 1, last, FMax(acc, FAbs(t[i])))

\* Variant of get_block_absmax without its assertion: the trailing partial
\* block is dropped.
GetBlockAbsmaxUnchecked(inpt_tensor, block_size) ==
    Ok(Tensor([b \in 1..(Len(inpt_tensor) \div block_size) |->
           MaxAbsFrom(inpt_tensor, (b - 1) * block_size + 1, b * block_size, Zero)]))

\* get_block_absmax on a flat (one-dimensional) tensor:
\* blocks.abs().max(dim=1).values.
get_block_absmax(inpt_tensor, block_size) ==
    IF Len(inpt_tensor) % block_size # 0
    THEN Raise("Input tensor must be divisible by block size")
    ELSE Ok(Tensor([b \in 1..(Len(inpt_tensor) \div block_size) |->
                MaxAbsFrom(inpt_tensor, (b - 1) * block_size + 1, b * block_size, Zero)]))

\* The least exponent of the non-zero entries of t (0 when all are zero).
RECURSIVE MinExp(_, _, _)
MinExp(t, i, acc) ==
    IF i > Len(t) THEN acc
    ELSE IF t[i] = Zero THEN MinExp(t, i + 1, acc)
    ELSE MinExp(t, i + 1, IF t[i][2] < acc THEN t[i][2] ELSE acc)

RECURSIVE SumAt(_, _, _)
SumAt(t, i, e) ==
    IF i > Len(t) THEN 0
    ELSE (IF t[i] = Zero THEN 0 ELSE t[i][1] * 2^(t[i][2] - e)) + SumAt(t, i + 1, e)

\* Tensor.mean() of a bfloat16 tensor of finite values: the exact sum (torch
\* accumulates in float32, exactly here) divided by the count, as bfloat16.
Mean(t) ==
    LET e == MinExp(t, 1, 127)
    IN FromRatio(SumAt(t, 1, e), Len(t), e, BF16)

\* The chunk (row of the view (n, size)) that flat index i falls in.
RowOf(i, size) == ((i - 1) \div size) + 1

\* Variant of RoundClamp without the clamp.
RoundNoClamp(x) == FRound(x)

\* round().clamp(-128, 127) of a product that is not NaN
RoundClamp(x) ==
    IF x = PosInf THEN 127
    ELSE IF x = NegInf THEN -128
    ELSE LET r == FRound(x)
         IN IF r < -128 THEN -128 ELSE IF r > 127 THEN 127 ELSE r

\* QLoRAWeight.double_quantize_scalers up to the conversion to int8:
\* val.product holds the rounded and clamped bfloat16 values (NaN where the
\* product is NaN), val.zero_div the chunks whose factor divided by zero.
double_quantize_scalers(inpt_tensor, block_size, scaler_block_size) ==
    IF Len(inpt_tensor) % scaler_block_size # 0
    THEN Raise("Input tensor must be divisible by block size")
    ELSE
    LET first == get_block_absmax(inpt_tensor, block_size)
    IN IF first.err # "" THEN first
       ELSE
       LET scalers_1_mean == Mean(first.val)
           scalers_1 == Tensor([b \in 1..Len(first.val) |->
                            FSub(first.val[b], scalers_1_mean, BF16)])
       IN IF Len(scalers_1) % scaler_block_size # 0
          THEN Raise("Number of scalers must be divisible by scaler block size")
          ELSE
          LET n_scaler_blocks == Len(scalers_1) \div scaler_block_size
              scaler_absmax == get_block_absmax(scalers_1, scaler_block_size).val
              quantization_factor ==
                  Tensor([c \in 1..n_scaler_blocks |->
                      FDiv(FromInt(256, BF16),
                           FMul(FromInt(2, BF16), scaler_absmax[c], BF16), BF16)])
              quantized_scaler_blocks ==
                  Tensor([b \in 1..Len(scalers_1) |->
                      LET x == FMul(scalers_1[b],
                                    quantization_factor[RowOf(b, scaler_block_size)],
                                    BF16)
                      IN IF IsNaN(x) THEN NaN ELSE FromInt(RoundClamp(x), BF16)])
          IN Ok([product |-> quantized_scaler_blocks,
                 quantization_factor |-> quantization_factor,
                 scalers_1_mean |-> scalers_1_mean,
                 zero_div |-> {c \in 1..n_scaler_blocks : scaler_absmax[c] = Zero}])

\* .to(torch.int8) of one rounded, clamped value.  Converting NaN to an
\* integer is undefined behaviour of the C++ cast: any int8 may come out
\* (Int8OfNaN lists the ones kept: the usual 0 and the two extremes).
Int8OfNaN == {-128, 0, 127}
ToInt8(x) == IF IsNaN(x) THEN Int8OfNaN ELSE {FRound(x)}

\* All sequences q with q[i] \in sets[i].
RECURSIVE Choices(_)
Choices(sets) ==
    IF Len(sets) = 0 THEN {<<>>}
    ELSE LET n == Len(sets)
             rest == Choices(SubSeq(sets, 1, n - 1))
         IN {Append(q, x) : q \in rest, x \in sets[n]}

\* QLoRAWeight.dequantize_scalers: each code over the factor of its chunk,
\* plus the mean; int8 / bfloat16 is a bfloat16 division.
dequantize_scalers(inpt_tensor, quantization_factor, scaler_block_size, scaler_mean) ==
    IF Len(inpt_tensor) % scaler_block_size # 0
    THEN Raise("Input tensor must be divisible by block size")
    ELSE Ok(Tensor([b \in 1..Len(inpt_tensor) |->
                FAdd(FDiv(FromInt(inpt_tensor[b], BF16),
                          quantization_factor[RowOf(b, scaler_block_size)], BF16),
                     scaler_mean, BF16)]))

\* QLoRAWeight.convert_to_norm_float_weight: val.bytes is the uint8 tensor,
\* val.zero_div the blocks whose normalisation divided by zero.
convert_to_norm_float_weight(inpt_tensor, n_blocks, block_size) ==
    LET numel == Len(inpt_tensor)
    IN IF numel % 2 # 0
       THEN Raise("Number of elements must be even just to not have to think about the end")
       ELSE
       LET scalers == get_block_absmax(inpt_tensor, block_size).val
           scaled_blocks == Tensor([i \in 1..numel |->
                                FDiv(inpt_tensor[i], scalers[RowOf(i, block_size)], BF16)])
           quantized_blocks == Tensor([i \in 1..numel |->
                                   quantize_tensor_nearest(scaled_blocks[i], nf4)])
           combined_blocks == Tensor([k \in 1..(numel \div 2) |->
                                  Combine(quantized_blocks[2 * k - 1],
                                          quantized_blocks[2 * k])])
       IN Ok([bytes |-> combined_blocks,
              codes |-> quantized_blocks,
              zero_div |-> {b \in 1..n_blocks : scalers[b] = Zero}])

\* The product of a shape's dimensions.
RECURSIVE Numel(_)
Numel(shape) == IF Len(shape) = 0 THEN 1 ELSE Head(shape) * Numel(Tail(shape))

\* a * b for two flat tensors under torch's broadcasting: equal lengths, or one
\* of length 1 stretched to the other's length (which may be 0).
BroadcastMul(a, b) ==
    IF Len(a) = Len(b) \/ Len(b) = 1 \/ Len(a) = 1
    THEN LET n == IF Len(a) = 1 THEN Len(b) ELSE Len(a)
         IN Ok(Tensor([k \in 1..n |-> FMul(a[IF Len(a) = 1 THEN 1 ELSE k],
                                    b[IF Len(b) = 1 THEN 1 ELSE k], BF16)]))
    ELSE Raise("The size of tensor a must match the size of tensor b")

\* get_original_weight's unpacking of the bytes: the high and the low nibbles.
first_elements(norm_float_weight) ==
    Tensor([k \in 1..Len(norm_float_weight) |-> ShiftRight(norm_float_weight[k], 4)])

second_elements(norm_float_weight) ==
    Tensor([k \in 1..Len(norm_float_weight) |-> BitAnd(norm_float_weight[k], 15)])

\* QLoRAWeight.get_original_weight on the object self: val.data is the flat
\* result, val.shape its shape.
get_original_weight(self) ==
    LET n == Len(self.norm_float_weight)
        first == first_elements(self.norm_float_weight)
        second == second_elements(self.norm_float_weight)
        dequantized_first == Tensor([k \in 1..n |-> dequantize(first[k], nf4)])
        dequantized_second == Tensor([k \in 1..n |-> dequantize(second[k], nf4)])
        scalers == dequantize_scalers(self.quantized_scalers, self.quantization_factor,
                                      self.scaler_block_size, self.scaler_mean)
        half == self.block_size \div 2
        repeated == Tensor([j \in 1..(Len(scalers.val) * half) |->
                               scalers.val[RowOf(j, half)]])
        scaled_first == BroadcastMul(dequantized_first, repeated)
        scaled_second == BroadcastMul(dequantized_second, repeated)
    IN IF scalers.err # "" THEN scalers
       ELSE IF scaled_first.err # "" THEN scaled_first
       ELSE IF 2 * Len(scaled_first.val) # Numel(self.original_shape)
            THEN Raise("shape is invalid for input size")
       ELSE Ok([data |-> Tensor([i \in 1..(2 * Len(scaled_first.val)) |->
                             IF i % 2 = 1 THEN scaled_first.val[(i + 1) \div 2]
                             ELSE scaled_second.val[i \div 2]]),
                shape |-> self.original_shape])

\* Variant of QLoRAWeight with the two block sizes stored in each other's field.
QLoRAWeightSwapped(block_size, n_blocks, scaler_block_size, dq, norm_float_weight, shape) ==
    [block_size |-> scaler_block_size,
     n_blocks |-> n_blocks,
     scaler_block_size |-> block_size,
     quantized_scalers |-> dq[1],
     quantization_factor |-> dq[2],
     scaler_mean |-> dq[3],
     norm_float_weight |-> norm_float_weight,
     original_shape |-> shape]

\* The fields QLoRAWeight.__init__ stores on self; dq is the triple that
\* double_quantize_scalers returns (codes, factors, mean).
QLoRAWeight(block_size, n_blocks, scaler_block_size, dq, norm_float_weight, shape) ==
    [block_size |-> block_size,
     n_blocks |-> n_blocks,
     scaler_block_size |-> scaler_block_size,
     quantized_scalers |-> dq[1],
     quantization_factor |-> dq[2],
     scaler_mean |-> dq[3],
     norm_float_weight |-> norm_float_weight,
     original_shape |-> shape]

(***************************************************************************)
(* QLoRAWeightDebug: the element-by-element encoder.                       *)
(***************************************************************************)
\* QLoRAWeightDebug.get_scalers: block.abs().max() of each block, the last
\* block ending at the tensor's end.
get_scalers(inpt_tensor, block_size) ==
    LET numel == Len(inpt_tensor)
    IN Tensor([b \in 1..((numel + block_size - 1) \div block_size) |->
           MaxAbsFrom(inpt_tensor, (b - 1) * block_size + 1,
                      IF b * block_size < numel THEN b * block_size ELSE numel, Zero)])

\* QLoRAWeightDebug.get_norm_float_weight on a tensor of n_blocks whole
\* blocks: each block is divided in place (bfloat16) by its scaler, and its
\* elements are quantized in pairs by quantize_nearest against get_nf4().  With
\* an odd block size block[j + 1] is read past the end of the first block.
get_norm_float_weight(self_scalers, block_size, inpt_tensor) ==
    LET numel == Len(inpt_tensor)
    IN IF numel % 2 # 0
       THEN Raise("Number of elements must be even just to not have to think about the end")
       ELSE IF block_size % 2 # 0
       THEN Raise("index is out of bounds for dimension 0")
       ELSE
       LET block == Tensor([i \in 1..numel |->
                        FDiv(inpt_tensor[i], self_scalers[RowOf(i, block_size)], BF16)])
           element == Tensor([i \in 1..numel |-> quantize_nearest(block[i], get_nf4)])
       IN Ok(Tensor([k \in 1..(numel \div 2) |->
                 Combine(element[2 * k - 1], element[2 * k])]))

\* The fields QLoRAWeightDebug.__init__ stores on self.
QLoRAWeightDebug(block_size, n_blocks, scalers, norm_float_weight, shape) ==
    [block_size |-> block_size,
     n_blocks |-> n_blocks,
     scalers |-> scalers,
     norm_float_weight |-> norm_float_weight,
     original_shape |-> shape]

(***************************************************************************)
(* The state machine: one QLoRAWeight is constructed from an input tensor   *)
(* and then decoded; the module's functions can also be called directly.    *)
(***************************************************************************)
MaxNumel == 4       \* inputs have 1..MaxNumel elements; block sizes range over the same
ProbeBinades == 12  \* element quantizers are called on this many binades below 4.0

\* Input elements (all bfloat16): 0, 1/4, 1, 17/16 and -217/256, the last one
\* the midpoint of nf4[0] = -1 and nf4[1] = -0.6953125.
InputValues == {FromRatio(n, 256, 0, BF16) : n \in {-217, 0, 64, 256, 272}}

\* Shapes of a tensor of n elements: flat, or a matrix with both sides > 1.
Shapes(n) == {<<n>>} \cup {<<r, n \div r>> : r \in {d \in 2..(n - 1) : n % d = 0}}

\* Values handed to the element quantizers: every bfloat16 value of magnitude
\* in [2^(2 - ProbeBinades), 4), zero and NaN.
ProbeValues ==
    {<<s * m, e>> : s \in {-1, 1}, m \in 128..255, e \in (-5 - ProbeBinades)..(-6)}
        \cup {Zero, NaN}

NoWeight == QLoRAWeight(0, 0, 0, <<<<>>, <<>>, Zero>>, <<>>, <<>>)
NoZeroDiv == [normalize |-> {}, factor |-> {}]
NoOut == [data |-> <<>>, shape |-> <<>>]
NoUnpacked == [first |-> <<>>, second |-> <<>>]
NoRet == [fn |-> "", err |-> "", val |-> <<>>]
NoDebug == QLoRAWeightDebug(0, 0, <<>>, <<>>, <<>>)

VARIABLES
    inpt_tensor,        \* the flattened input tensor (bfloat16)
    inpt_shape,         \* its shape
    block_size,         \* constructor argument
    scaler_block_size,  \* constructor argument
    pc,                 \* "start", "built", "failed", "decoded", "decode_failed", "called"
    qlora_weight,       \* the QLoRAWeight object, NoWeight while there is none
    error,              \* the message of the exception raised, "" if none
    quantized_blocks,   \* convert_to_norm_float_weight's local: the 4-bit codes
    zero_div,           \* the blocks / chunks whose division had a zero divisor
    out,                \* get_original_weight's result: [data, shape]
    unpacked,           \* get_original_weight's locals first_elements, second_elements
    scalers,            \* get_original_weight's local: the recovered block scales
    value,              \* the argument of a direct call of an element quantizer
    ret,                \* the result of a direct call
    qlora_debug,        \* the QLoRAWeightDebug object, NoDebug while there is none
    debug_pc,           \* "start", "built", "failed"
    debug_error         \* the message of the exception its constructor raised

debug_vars == <<qlora_debug, debug_pc, debug_error>>

vars == <<inpt_tensor, inpt_shape, block_size, scaler_block_size, pc, qlora_weight,
          error, quantized_blocks, zero_div, out, unpacked, scalers, value, ret,
          debug_vars>>

Init ==
    /\ \E numel \in 1..MaxNumel :
          /\ inpt_tensor \in [1..numel -> InputValues]
          /\ inpt_shape \in Shapes(numel)
    /\ block_size \in 1..MaxNumel
    /\ scaler_block_size \in 1..MaxNumel
    /\ pc = "start"
    /\ qlora_weight = NoWeight
    /\ error = ""
    /\ quantized_blocks = <<>>
    /\ zero_div = NoZeroDiv
    /\ out = NoOut
    /\ unpacked = NoUnpacked
    /\ scalers = <<>>
    /\ value = Zero
    /\ ret = NoRet
    /\ qlora_debug = NoDebug
    /\ debug_pc = "start"
    /\ debug_error = ""

\* QLoRAWeight.__init__ up to the conversion of the scaler codes to int8: the
\* assertions in the order the code reaches them.
ConstructResult ==
    IF Len(inpt_tensor) % block_size # 0
    THEN Raise("Input tensor must be divisible by block size")
    ELSE
    LET n_blocks == Len(inpt_tensor) \div block_size
        dq == double_quantize_scalers(inpt_tensor, block_size, scaler_block_size)
        nfw == convert_to_norm_float_weight(inpt_tensor, n_blocks, block_size)
    IN IF dq.err # "" THEN dq
       ELSE IF nfw.err # "" THEN nfw
       ELSE Ok([n_blocks |-> n_blocks, dq |-> dq.val, nfw |-> nfw.val])

\* QLoRAWeight(inpt_tensor, block_size, scaler_block_size).  An AssertionError
\* leaves no object.
Construct ==
    /\ pc = "start"
    /\ \E r \in {ConstructResult} :
          IF r.err # ""
          THEN /\ pc' = "failed"
               /\ error' = r.err
               /\ UNCHANGED <<qlora_weight, quantized_blocks, zero_div>>
          ELSE /\ pc' = "built"
               /\ error' = ""
               /\ \E q \in Choices([b \in 1..Len(r.val.dq.product) |->
                                          ToInt8(r.val.dq.product[b])]) :
                     qlora_weight' =
                        QLoRAWeight(block_size, r.val.n_blocks, scaler_block_size,
                                    <<q, r.val.dq.quantization_factor,
                                      r.val.dq.scalers_1_mean>>,
                                    r.val.nfw.bytes, inpt_shape)
               /\ quantized_blocks' = r.val.nfw.codes
               /\ zero_div' = [normalize |-> r.val.nfw.zero_div,
                               factor |-> r.val.dq.zero_div]
    /\ UNCHANGED <<inpt_tensor, inpt_shape, block_size, scaler_block_size,
                   out, unpacked, scalers, value, ret, debug_vars>>

\* QLoRAWeight.get_original_weight on the constructed object.
GetOriginalWeight ==
    /\ pc = "built"
    /\ \E r \in {get_original_weight(qlora_weight)} :
          IF r.err # ""
          THEN pc' = "decode_failed" /\ error' = r.err /\ out' = NoOut
          ELSE pc' = "decoded" /\ error' = "" /\ out' = r.val
    /\ unpacked' = [first |-> first_elements(qlora_weight.norm_float_weight),
                    second |-> second_elements(qlora_weight.norm_float_weight)]
    /\ scalers' = dequantize_scalers(qlora_weight.quantized_scalers,
                                     qlora_weight.quantization_factor,
                                     qlora_weight.scaler_block_size,
                                     qlora_weight.scaler_mean).val
    /\ UNCHANGED <<inpt_tensor, inpt_shape, block_size, scaler_block_size,
                   qlora_weight, quantized_blocks, zero_div, value, ret, debug_vars>>

\* A direct call get_block_absmax(inpt_tensor, block_size) on the tensor in its
\* own shape: the first assertion wants it flat.
CallGetBlockAbsmax ==
    /\ pc = "start"
    /\ pc' = "called"
    /\ \E r \in {IF Len(inpt_shape) # 1 THEN Raise("Input tensor must be flattened")
                 ELSE get_block_absmax(inpt_tensor, block_size)} :
          ret' = [fn |-> "get_block_absmax", err |-> r.err, val |-> r.val]
    /\ UNCHANGED <<inpt_tensor, inpt_shape, block_size, scaler_block_size, qlora_weight,
                   error, quantized_blocks, zero_div, out, unpacked, scalers, value, debug_vars>>

\* QLoRAWeightDebug.__init__ up to the stores on self: the assertion, then
\* get_scalers and get_norm_float_weight.
ConstructDebugResult ==
    IF Len(inpt_tensor) % block_size # 0
    THEN Raise("Input tensor must be divisible by block size")
    ELSE
    LET n_blocks == Len(inpt_tensor) \div block_size
        self_scalers == get_scalers(inpt_tensor, block_size)
        nfw == get_norm_float_weight(self_scalers, block_size, inpt_tensor)
    IN IF nfw.err # "" THEN nfw
       ELSE Ok(QLoRAWeightDebug(block_size, n_blocks, self_scalers, nfw.val, inpt_shape))

\* QLoRAWeightDebug(inpt_tensor, block_size) on the same input tensor, once
\* the QLoRAWeight constructor has returned or raised.  An exception leaves no
\* object.
ConstructDebug ==
    /\ pc \in {"built", "failed"}
    /\ debug_pc = "start"
    /\ \E r \in {ConstructDebugResult} :
          IF r.err # ""
          THEN debug_pc' = "failed" /\ debug_error' = r.err /\ qlora_debug' = NoDebug
          ELSE debug_pc' = "built" /\ debug_error' = "" /\ qlora_debug' = r.val
    /\ UNCHANGED <<inpt_tensor, inpt_shape, block_size, scaler_block_size, pc,
                   qlora_weight, error, quantized_blocks, zero_div, out, unpacked,
                   scalers, value, ret>>

Next == Construct \/ GetOriginalWeight \/ CallGetBlockAbsmax \/ ConstructDebug

Spec == Init /\ [][Next]_vars

(***************************************************************************)
(* The element quantizers as pure functions: each is called once on a       *)
(* value of ProbeValues.                                                   *)
(***************************************************************************)
QInit ==
    /\ value \in ProbeValues
    /\ inpt_tensor = <<>>
    /\ inpt_shape = <<0>>
    /\ block_size = 1
    /\ scaler_block_size = 1
    /\ pc = "start"
    /\ qlora_weight = NoWeight
    /\ error = ""
    /\ quantized_blocks = <<>>
    /\ zero_div = NoZeroDiv
    /\ out = NoOut
    /\ unpacked = NoUnpacked
    /\ scalers = <<>>
    /\ ret = NoRet
    /\ qlora_debug = NoDebug
    /\ debug_pc = "start"
    /\ debug_error = ""

\* The direct call fn(value, table) returns: ret holds its result.
Return(fn, result) ==
    /\ pc' = "called"
    /\ ret' = [fn |-> fn, err |-> "", val |-> result]
    /\ UNCHANGED <<inpt_tensor, inpt_shape, block_size, scaler_block_size, qlora_weight,
                   error, quantized_blocks, zero_div, out, unpacked, scalers, value, debug_vars>>

\* QLoRAWeight.quantize_tensor_nearest(value, self.nf4)
CallQuantizeTensorNearest ==
    /\ pc = "start"
    /\ Return("quantize_tensor_nearest", quantize_tensor_nearest(value, nf4))

\* QLoRAWeight.quantize_tensor(value, self.nf4)
CallQuantizeTensor ==
    /\ pc = "start"
    /\ Return("quantize_tensor", quantize_tensor(value, nf4))

\* QLoRAWeightDebug.quantize_nearest(value, get_nf4())
CallQuantizeNearest ==
    /\ pc = "start"
    /\ Return("quantize_nearest", quantize_nearest(value, get_nf4))

\* QLoRAWeightDebug.quantize(value, get_nf4())
CallQuantize ==
    /\ pc = "start"
    /\ Return("quantize", quantize(value, get_nf4))

QNext ==
    \/ CallQuantizeTensorNearest
    \/ CallQuantizeTensor
    \/ CallQuantizeNearest
    \/ CallQuantize

QSpec == QInit /\ [][QNext]_vars

(***************************************************************************)
(* Properties.  Exact (real) quantities are integers in units of 2^-u: every *)
(* float met below is a multiple of the unit it is measured in.             *)
(***************************************************************************)
\* The finite float a as an integer count of 2^-u.
Fixed(a, u) == IF a = Zero THEN 0 ELSE a[1] * 2^(a[2] + u)

RECURSIVE SumSeq(_)
SumSeq(t) == IF Len(t) = 0 THEN 0 ELSE Head(t) + SumSeq(Tail(t))

\* The largest element of a non-empty set of integers.
MaxInt(S) == CHOOSE x \in S : \A y \in S : y <= x

\* The blocks of scaler chunk c.
Chunk(c) == ((c - 1) * scaler_block_size + 1)..(c * scaler_block_size)

\* An object has been constructed.
Built == pc \in {"built", "decoded", "decode_failed"}

\* The raw block scales of the input (accepted inputs only).
BlockScales == get_block_absmax(inpt_tensor, block_size).val

\* n times the exact centred absmax of the chunk of block b, in units of 2^-u,
\* for n blocks: max over the chunk of |n * s - sum of all scales|.
ExactChunkAbsmax(b, u) ==
    LET fixed == Tensor([k \in 1..Len(BlockScales) |-> Fixed(BlockScales[k], u)])
        n == Len(fixed)
        sum == SumSeq(fixed)
    IN MaxInt({IAbs(n * fixed[k] - sum) : k \in Chunk(RowOf(b, scaler_block_size))})

\* C1: the codes produced by encode are 4-bit and of even count; byte k is
\* code[2k] * 16 + code[2k+1] (0-based) and lies in 0..255; get_original_weight's
\* unpacking (>> 4, & 15) returns exactly the two codes, and packing those
\* again gives the same byte.
C1_PackingLossless ==
    Built =>
        LET c == quantized_blocks
            bytes == qlora_weight.norm_float_weight
        IN /\ Len(c) % 2 = 0
           /\ \A i \in 1..Len(c) : c[i] \in 0..15
           /\ 2 * Len(bytes) = Len(c)
           /\ \A k \in 1..Len(bytes) :
                 /\ bytes[k] = c[2 * k - 1] * 16 + c[2 * k]
                 /\ bytes[k] \in 0..255
           /\ pc # "built" =>
                 /\ Len(unpacked.first) = Len(bytes)
                 /\ Len(unpacked.second) = Len(bytes)
                 /\ \A k \in 1..Len(bytes) :
                       /\ unpacked.first[k] = c[2 * k - 1]
                       /\ unpacked.second[k] = c[2 * k]
                       /\ Combine(unpacked.first[k], unpacked.second[k]) = bytes[k]

\* C1's case: a decoded tensor one of whose bytes holds two different non-zero
\* nibbles.
C1_Witness ==
    /\ pc = "decoded"
    /\ \E k \in 1..Len(unpacked.first) :
          /\ unpacked.first[k] > 0
          /\ unpacked.second[k] > 0
          /\ unpacked.first[k] # unpacked.second[k]

\* The exact distance |t - v| in units of 2^-27.
ExactDist(t, v) == IAbs(Fixed(t, 27) - Fixed(v, 27))

\* idx is the smallest index among those at the least exact distance from v.
IsNearest(idx, v, table) ==
    /\ idx \in 0..15
    /\ \A j \in 0..15 :
          /\ ExactDist(table[idx + 1], v) <= ExactDist(table[j + 1], v)
          /\ ExactDist(table[idx + 1], v) = ExactDist(table[j + 1], v) => idx <= j

C3_RoundTripBound ==
    (/\ pc = "decoded"
     /\ Len(inpt_tensor) % (block_size * scaler_block_size * 2) = 0
     /\ \A b \in 1..Len(BlockScales) : BlockScales[b] # Zero) =>
        \A i \in 1..Len(inpt_tensor) :
            LET b == RowOf(i, block_size)
                n == Len(BlockScales)
                d == IAbs(Fixed(out.data[i], 13) - Fixed(inpt_tensor[i], 13))
            IN 80000 * n * d
                   <= 12152 * n * Fixed(BlockScales[b], 13) + 625 * ExactChunkAbsmax(b, 13)

\* C3's failing input is reached: [0, 1.0625, 1.0, -0.84765625] with block
\* size 2 and scaler block size 1 decodes its last element to -1.0.
C3_Failing ==
    /\ pc = "decoded"
    /\ block_size = 2
    /\ scaler_block_size = 1
    /\ inpt_tensor = <<Zero, FromRatio(272, 256, 0, BF16), FromInt(1, BF16),
                       FromRatio(-217, 256, 0, BF16)>>
    /\ out.data[4] = FromInt(-1, BF16)

AllZero == \A i \in 1..Len(inpt_tensor) : inpt_tensor[i] = Zero

\* C4 as stated: an accepted all-zero tensor is encoded without a division by
\* zero in the block normalisation or in the scale compression, and decodes to
\* zeros.
C4_ZeroTensor ==
    (Built /\ AllZero) =>
        /\ zero_div.normalize = {}
        /\ zero_div.factor = {}
        /\ pc = "decoded" =>
              /\ Len(out.data) = Len(inpt_tensor)
              /\ \A i \in 1..Len(out.data) : out.data[i] = Zero

\* C4's failing input is reached: <<0, 0>> with block size 2 is accepted and
\* both divisions had a zero divisor.
C4_Failing ==
    /\ pc = "built"
    /\ inpt_tensor = <<Zero, Zero>>
    /\ block_size = 2
    /\ zero_div.normalize = {1}
    /\ zero_div.factor = {1}

\* C5 as stated: compression never divides 256 by 2 * 0 and never stores a
\* factor that is not finite.
C5_DegenerateChunkGuarded ==
    Built =>
        /\ zero_div.factor = {}
        /\ \A c \in 1..Len(qlora_weight.quantization_factor) :
              IsFinite(qlora_weight.quantization_factor[c])

\* C5's failing input is reached: <<1, 1>> with block size 2 stores the
\* factor +inf.
C5_Failing ==
    /\ pc = "built"
    /\ inpt_tensor = <<FromInt(1, BF16), FromInt(1, BF16)>>
    /\ block_size = 2
    /\ zero_div.factor = {1}
    /\ qlora_weight.quantization_factor = <<PosInf>>

\* A divisibility precondition of the constructor fails.
BadLength ==
    \/ Len(inpt_tensor) % block_size # 0
    \/ (Len(inpt_tensor) \div block_size) % scaler_block_size # 0
    \/ Len(inpt_tensor) % 2 # 0

\* C6: a construction whose tensor length is not divisible by block_size, or
\* whose number of blocks is not divisible by scaler_block_size, or whose
\* element count is odd, raises and leaves no object; get_block_absmax raises
\* when its input's length is not divisible by its block size.
C6_Rejections ==
    /\ (pc \notin {"start", "called"} /\ BadLength) =>
          /\ pc = "failed"
          /\ error # ""
          /\ qlora_weight = NoWeight
    /\ (pc = "called" /\ ret.fn = "get_block_absmax"
            /\ Len(inpt_tensor) % block_size # 0) =>
          /\ ret.err # ""
          /\ ret.val = <<>>

\* C6's case: a construction rejected only because the element count is odd.
C6_Witness ==
    /\ pc = "failed"
    /\ Len(inpt_tensor) % block_size = 0
    /\ (Len(inpt_tensor) \div block_size) % scaler_block_size = 0
    /\ Len(inpt_tensor) % 2 = 1

\* The smallest index whose table entry is >= v (exactly), 15 if there is none.
CeilIndex(v, table) ==
    LET at == {i \in 0..15 : Fixed(v, 27) <= Fixed(table[i + 1], 27)}
    IN IF at = {} THEN 15 ELSE CHOOSE i \in at : \A j \in at : i <= j

\* C7 as stated: for every finite value, quantize_tensor (on self.nf4) and the
\* Debug quantize (on get_nf4()) return the smallest index whose entry is >=
\* the value, 15 when there is none, always within 0..15.
C7_QuantizeCeil ==
    (pc = "called" /\ IsFinite(value)) =>
        /\ ret.fn = "quantize_tensor" =>
              ret.val \in 0..15 /\ ret.val = CeilIndex(value, nf4)
        /\ ret.fn = "quantize" =>
              ret.val \in 0..15 /\ ret.val = CeilIndex(value, get_nf4)

\* C7's failing input is reached: quantize_tensor(2.0, nf4) returns 16.
C7_Failing ==
    /\ pc = "called"
    /\ ret.fn = "quantize_tensor"
    /\ value = FromInt(2, BF16)
    /\ ret.val = 16

\* x is one float: a pair of integers.
IsFloat(x) == Len(x) = 2 /\ x[1] \in Int /\ x[2] \in Int

\* C8: the constructed object holds numel / block_size scaler codes,
\* numel / (block_size * scaler_block_size) factors, one scaler mean and
\* numel / 2 packed bytes, and block_size, scaler_block_size and the shape as
\* they were passed.
C8_AggregateLayout ==
    Built =>
        LET numel == Len(inpt_tensor)
        IN /\ numel % (block_size * scaler_block_size) = 0
           /\ Len(qlora_weight.quantized_scalers) = numel \div block_size
           /\ Len(qlora_weight.quantization_factor)
                  = numel \div (block_size * scaler_block_size)
           /\ IsFloat(qlora_weight.scaler_mean)
           /\ numel % 2 = 0
           /\ Len(qlora_weight.norm_float_weight) = numel \div 2
           /\ qlora_weight.block_size = block_size
           /\ qlora_weight.scaler_block_size = scaler_block_size
           /\ qlora_weight.n_blocks = numel \div block_size
           /\ qlora_weight.original_shape = inpt_shape

\* C8's case: an object with several blocks per scaler chunk, several chunks
\* and a two-dimensional shape.
C8_Witness ==
    /\ pc = "built"
    /\ block_size # scaler_block_size
    /\ Len(qlora_weight.quantization_factor) = 2
    /\ Len(qlora_weight.quantized_scalers) = 4
    /\ Len(inpt_shape) = 2

\* The centred scales as the code computes them (bfloat16): scale - mean, with
\* one mean over all blocks.
Centred ==
    LET mean == Mean(BlockScales)
    IN Tensor([b \in 1..Len(BlockScales) |-> FSub(BlockScales[b], mean, BF16)])

\* The absmax of chunk c of the centred scales.
ChunkAbsmax(centred, c) ==
    CHOOSE a \in {FAbs(centred[b]) : b \in Chunk(c)} :
        \A b \in Chunk(c) : FLeq(FAbs(centred[b]), a)

\* Chunk c, of centred absmax A # 0, is stored as C9 says.
ChunkStored(centred, c, A) ==
    LET factor == qlora_weight.quantization_factor[c]
    IN /\ factor = FDiv(FromInt(256, BF16), FMul(FromInt(2, BF16), A, BF16), BF16)
       /\ \A b \in Chunk(c) :
             LET q == qlora_weight.quantized_scalers[b]
                 r == FRound(FMul(centred[b], factor, BF16))
             IN /\ q \in -128..127
                /\ q = IF r < -128 THEN -128 ELSE IF r > 127 THEN 127 ELSE r
                /\ centred[b] = A => q = 127
                /\ centred[b] = FNeg(A) => q = -128

AllChunksStored(centred) ==
    \A c \in 1..Len(qlora_weight.quantization_factor) :
        ChunkAbsmax(centred, c) # Zero => ChunkStored(centred, c, ChunkAbsmax(centred, c))

BothEndsSaturate(centred, c) ==
    /\ ChunkAbsmax(centred, c) # Zero
    /\ \E b \in Chunk(c) :
          centred[b] = ChunkAbsmax(centred, c) /\ qlora_weight.quantized_scalers[b] = 127
    /\ \E b \in Chunk(c) :
          centred[b] = FNeg(ChunkAbsmax(centred, c))
              /\ qlora_weight.quantized_scalers[b] = -128

C10_ScaleRoundTrip ==
    pc \in {"decoded", "decode_failed"} =>
        /\ Len(scalers) = Len(BlockScales)
        /\ \A b \in 1..Len(scalers) :
              LET q == qlora_weight.quantized_scalers[b]
                  factor == qlora_weight.quantization_factor[RowOf(b, scaler_block_size)]
                  nA == ExactChunkAbsmax(b, 20)
                  d == IAbs(Fixed(scalers[b], 20) - Fixed(BlockScales[b], 20))
              IN /\ scalers[b] = FAdd(FDiv(FromInt(q, BF16), factor, BF16),
                                      qlora_weight.scaler_mean, BF16)
                 /\ nA # 0 =>
                       /\ 128 * Len(scalers) * d <= nA
                       /\ q \in -127..126 => 256 * Len(scalers) * d <= nA

\* C10's failing input is reached: [0, 0.25, 0, 1.0] with block size 2 and
\* scaler block size 1 recovers the scale 1.0 as 0.99609375.
C10_Failing ==
    /\ pc = "decoded"
    /\ block_size = 2
    /\ scaler_block_size = 1
    /\ inpt_tensor = <<Zero, FromRatio(64, 256, 0, BF16), Zero, FromInt(1, BF16)>>
    /\ scalers[2] = FromRatio(255, 256, 0, BF16)

\* The 4-bit code of the element at flat index i (1-based): the high nibble
\* of its byte when i is the first of its pair, the low nibble otherwise.
CodeAt(bytes, i) ==
    IF i % 2 = 1 THEN bytes[(i + 1) \div 2] \div 16 ELSE bytes[i \div 2] % 16

\* C11: decoding a constructed object succeeds, and its result has the
\* original shape and length, the element at flat index i being
\* nf4[code_i] times the recovered scale of block (i div block_size), where
\* code_i is the high nibble of byte i/2 for even i and the low nibble of byte
\* (i-1)/2 for odd i (0-based indices).
C11_DecodeAlignment ==
    pc \in {"decoded", "decode_failed"} =>
        /\ pc = "decoded"
        /\ out.shape = inpt_shape
        /\ Len(out.data) = Len(inpt_tensor)
        /\ \A i \in 1..Len(out.data) :
              out.data[i] = FMul(nf4[CodeAt(qlora_weight.norm_float_weight, i) + 1],
                                 scalers[RowOf(i, block_size)], BF16)

\* C11's failing input is reached: [0.25, 1.0] with block size 1 and scaler
\* block size 1 is accepted by the constructor, and decoding it raises.
C11_Failing ==
    /\ pc = "decode_failed"
    /\ block_size = 1
    /\ scaler_block_size = 1
    /\ inpt_tensor = <<FromRatio(64, 256, 0, BF16), FromInt(1, BF16)>>
    /\ qlora_weight.norm_float_weight = <<255>>
    /\ error = "shape is invalid for input size"

\* C12: whenever both constructors accept the same input tensor and block
\* size, the bytes packed by QLoRAWeightDebug.get_norm_float_weight are
\* identical to those packed by QLoRAWeight.convert_to_norm_float_weight.
C12_DifferentialEquivalence ==
    (Built /\ debug_pc = "built") =>
        qlora_debug.norm_float_weight = qlora_weight.norm_float_weight

\* C12's failing input is reached: [0, 0.25, 1.0, -0.84765625] with block size
\* 2 is accepted by both constructors; the second byte is 0xF0 from the
\* vectorized encoder and 0xF1 from the debug encoder.
C12_Failing ==
    /\ Built
    /\ debug_pc = "built"
    /\ block_size = 2
    /\ scaler_block_size = 1
    /\ inpt_tensor = <<Zero, FromRatio(64, 256, 0, BF16), FromInt(1, BF16),
                       FromRatio(-217, 256, 0, BF16)>>
    /\ qlora_weight.norm_float_weight = <<127, 240>>
    /\ qlora_debug.norm_float_weight = <<127, 241>>

=============================================================================
